---- MODULE Spec2Model ----
(***************************************************************************)
(* A model of tox's ToxEnv (src/src/tox/tox_env/api.py): the lifecycle     *)
(* engine (setup / _clean / teardown), the execution-session registry with *)
(* interrupt(), the environment-variable resolver and the PATH computation. *)
(*                                                                         *)
(* Text (names, patterns, paths, values) is a sequence of one-character    *)
(* strings, so that splitting, joining and pattern matching are computed.  *)
(***************************************************************************)
EXTENDS Integers, Sequences, FiniteSets, TLC

VARIABLES
    conf,               \* self.conf: the keys "platform" and "recreate"
    run_state,          \* self._run_state: setup / clean / teardown flags
    env_dir,            \* whether the directory self.env_dir exists
    env_tmp_dir,        \* self.env_tmp_dir: "absent", "empty" or "nonempty"
    cache,              \* self.cache: the stored fingerprints ({} = none)
    last,               \* the last lifecycle call: what it did and how it exited
    teardowns,          \* how often the hook _teardown has run (counted to MaxTeardowns)
    pass_env,           \* self.conf["pass_env"]: names and glob patterns
    set_env,            \* self.conf["set_env"]: the explicit overrides
    os_environ,         \* os.environ of the tox process
    paths_private,      \* self._paths_private: the owned directories
    env_vars,           \* self._env_vars: <<>> for None, <<mapping>> once computed
    made_path,          \* the last value _make_path returned: <<>> or <<text>>
    env_last,           \* the last read of _environment_variables or assignment to _paths
    changes,            \* how often the process environment or the overrides changed
    interrupted,        \* self._interrupted
    execute_statuses,   \* self._execute_statuses: the sessions registered
    wpc,                \* where the thread running execute / execute_async is
    wcall,              \* its call: which method, how the with-block ended, its result
    calls,              \* how many execute_async calls have begun
    session,            \* the newest execution session (0: none yet)
    status,             \* that session's ExecuteStatus: exit_code and outcome present?
    ipc,                \* where the thread running interrupt() is
    snapshot,           \* its list(self._execute_statuses.values()), not yet visited
    icalls,             \* how many interrupt() calls have begun
    inflight,           \* the sessions in flight when the last interrupt() began
    got                 \* per session, the interrupt() calls on its status from
                        \* the last interrupt() of the environment

lifeVars == <<conf, run_state, env_dir, env_tmp_dir, cache, last, teardowns>>

envVars == <<pass_env, set_env, os_environ, paths_private, env_vars, made_path,
            env_last, changes>>

execVars == <<interrupted, execute_statuses, wpc, wcall, calls, session, status,
              ipc, snapshot, icalls, inflight, got>>

vars == <<conf, run_state, env_dir, env_tmp_dir, cache, last, teardowns,
          pass_env, set_env, os_environ, paths_private, env_vars, made_path,
          env_last, changes,
          interrupted, execute_statuses, wpc, wcall, calls, session, status,
          ipc, snapshot, icalls, inflight, got>>

\* the count of teardown hook runs stops here
MaxTeardowns == 2

Min(a, b) == IF a < b THEN a ELSE b

Range(s) == { s[i] : i \in 1..Len(s) }

\* how often event e occurs in trace t
Count(t, e) == Cardinality({ i \in 1..Len(t) : t[i] = e })

(***************************************************************************)
(* Regular expressions, as far as the model's patterns use them: a literal *)
(* character, "." for any character, and a postfix "*".                    *)
(***************************************************************************)
AtomMatch(a, c) == a = "." \/ a = c

Rest(s, n) == SubSeq(s, n, Len(s))

RECURSIVE ReFull(_, _)
\* re.fullmatch(p, s) is not None
ReFull(p, s) ==
    IF p = <<>> THEN s = <<>>
    ELSE IF Len(p) >= 2 /\ p[2] = "*"
         THEN \/ ReFull(Rest(p, 3), s)
              \/ s # <<>> /\ AtomMatch(p[1], s[1]) /\ ReFull(p, Tail(s))
         ELSE s # <<>> /\ AtomMatch(p[1], s[1]) /\ ReFull(Tail(p), Tail(s))

\* re.match(p, s) is not None: some prefix of s matches p
ReMatch(p, s) == \E i \in 0..Len(s) : ReFull(p, SubSeq(s, 1, i))

(***************************************************************************)
(* The environment's identity and configuration                           *)
(***************************************************************************)
Linux == <<"l", "i", "n", "u", "x">>
Win32 == <<"w", "i", "n", "3", "2">>

\* self.runs_on_platform
runs_on_platform == Linux

\* values of the "platform" option ("" means any platform)
PlatformPatterns ==
    { <<>>, Win32, <<"l", "i", "n">>, <<"l", "i", "n", ".", "*">> }

\* conf = {"name": ..., "type": ...} of this run, and one left by an earlier
\* run of an environment of another type
Fingerprint == [name |-> "py", type |-> "VirtualEnvRunner"]
OldFingerprint == [name |-> "py", type |-> "PackageEnv"]

(***************************************************************************)
(* Lifecycle: the environment's state as one record, and what a call (or a *)
(* part of one) yields: the state it leaves, the events it performed in    *)
(* order, and the exception it exits with ("none" when it returns).        *)
(***************************************************************************)
State == [run |-> run_state, dir |-> env_dir, tmp |-> env_tmp_dir, cache |-> cache]

Res(s, t, e) == [st |-> s, trace |-> t, exc |-> e]

\* the event of leaving by an exception
Raise(how) ==
    CASE how = "none" -> <<>>
      [] how = "Recreate" -> <<"raise Recreate">>
      [] how = "OSError" -> <<"raise OSError">>
      [] OTHER -> <<"raise Error">>

Staged(r, stage) == [st |-> r.st, trace |-> r.trace, exc |-> r.exc, stage |-> stage]

\* _platform_check: TRUE when it returns, FALSE when it raises Skip
PlatformCheckPrefix(platform_str, platform) ==
    platform_str = <<>> \/ ReMatch(platform_str, platform)

_platform_check(platform_str, platform) ==
    platform_str = <<>> \/ ReFull(platform_str, platform)

\* Info.compare(conf, "ToxEnv"): <<eq, old>>, old = {} standing for None
CacheCompare(c, value) == <<c = {value}, c>>

\* what Info.compare stores when the block under it does not raise
CacheStore(c, value) == {value}

\* _handle_env_tmp_dir: ensure the temporary directory exists and is empty
_handle_env_tmp_dir(s) ==
    Res([s EXCEPT !.tmp = "empty", !.dir = TRUE],
        (IF s.tmp = "nonempty" THEN <<"rmtree(env_tmp_dir)">> ELSE <<>>)
            \o <<"mkdir(env_tmp_dir)">>,
        "none")

\* _setup_env without the test "old is not None" of line 231
SetupEnvNoOldCheck(s) ==
    LET cmp == CacheCompare(s.cache, Fingerprint)
    IN  IF cmp[1] = FALSE
        THEN Res(s, <<"_setup_env", "cache.compare", "raise Recreate">>, "Recreate")
        ELSE LET tmp == _handle_env_tmp_dir(s)
             IN  Res(tmp.st, <<"_setup_env", "cache.compare">> \o tmp.trace, "none")

\* _setup_env: the fingerprint check, then the temporary directory
_setup_env(s) ==
    LET cmp == CacheCompare(s.cache, Fingerprint)
        eq  == cmp[1]
        old == cmp[2]
    IN  IF eq = FALSE /\ old # {}
        THEN Res(s, <<"_setup_env", "cache.compare", "raise Recreate">>, "Recreate")
        ELSE LET stored == [s EXCEPT !.cache = CacheStore(s.cache, Fingerprint)]
                 tmp    == _handle_env_tmp_dir(stored)
             IN  Res(tmp.st,
                     <<"_setup_env", "cache.compare">>
                        \o (IF old = {} THEN <<"cache.write">> ELSE <<>>)
                        \o tmp.trace,
                     "none")

\* _setup_with_env: the provisioning hook of the subclass; `how` is the way
\* it exits: "none", "Recreate" or "Error" (any other failure)
_setup_with_env(s, how) == Res(s, <<"_setup_with_env">> \o Raise(how), how)

\* _done_with_setup: the completion hook of the subclass
_done_with_setup(s, how) == Res(s, <<"_done_with_setup">> \o Raise(how), how)

\* one provisioning attempt: lines 188-189, and again 194-195
Attempt(s, how) ==
    LET e == _setup_env(s)
    IN  IF e.exc # "none" THEN e
        ELSE LET w == _setup_with_env(e.st, how)
             IN  Res(w.st, e.trace \o w.trace, w.exc)

\* _clean with the cache reset of line 256 ahead of the delete of line 254
CleanResetBeforeDelete(s, force, rm) ==
    LET call == IF force THEN <<"_clean(force)">> ELSE <<"_clean">>
    IN  IF s.run.clean THEN Res(s, call, "none")
        ELSE IF s.dir /\ rm = "OSError"
             THEN Res([s EXCEPT !.cache = {}],
                      call \o <<"cache.reset", "rmtree(env_dir)", "raise OSError">>,
                      "OSError")
        ELSE Res([s EXCEPT !.dir = FALSE, !.tmp = "absent", !.cache = {},
                           !.run = [@ EXCEPT !.setup = FALSE, !.clean = TRUE]],
                 call \o <<"cache.reset">>
                      \o (IF s.dir THEN <<"rmtree(env_dir)">> ELSE <<>>),
                 "none")

\* _clean without the flag update of line 257
CleanKeepFlags(s, force, rm) ==
    LET call == IF force THEN <<"_clean(force)">> ELSE <<"_clean">>
    IN  IF s.run.clean THEN Res(s, call, "none")
        ELSE IF s.dir /\ rm = "OSError"
             THEN Res(s, call \o <<"rmtree(env_dir)", "raise OSError">>, "OSError")
        ELSE Res([s EXCEPT !.dir = FALSE, !.tmp = "absent", !.cache = {}],
                 call \o (IF s.dir THEN <<"rmtree(env_dir)">> ELSE <<>>)
                      \o <<"cache.reset">>,
                 "none")

\* _clean(force): `rm` is the way shutil.rmtree(env_dir) exits, "none" or
\* "OSError" (it is called without ignore_errors). The parameter force is
\* never read (line 249: noqa U100).
_clean(s, force, rm) ==
    LET call == IF force THEN <<"_clean(force)">> ELSE <<"_clean">>
    IN  IF s.run.clean THEN Res(s, call, "none")
        ELSE IF s.dir /\ rm = "OSError"
             THEN Res(s, call \o <<"rmtree(env_dir)", "raise OSError">>, "OSError")
        ELSE Res([s EXCEPT !.dir = FALSE, !.tmp = "absent", !.cache = {},
                           !.run = [@ EXCEPT !.setup = FALSE, !.clean = TRUE]],
                 call \o (IF s.dir THEN <<"rmtree(env_dir)">> ELSE <<>>)
                      \o <<"cache.reset">>,
                 "none")

\* the finally clause of setup (line 199)
SetupFinallyCleanOnly(s) == [s EXCEPT !.run = [@ EXCEPT !.clean = FALSE]]

SetupFinally(s) == [s EXCEPT !.run = [@ EXCEPT !.setup = TRUE, !.clean = FALSE]]

\* the except clause of setup (lines 190-195) for a Recreate of the first
\* attempt; h gives the way each collaborator exits
RecreateHandlerSwallow(s, recreate, h) ==
    IF ~recreate
    THEN LET c == _clean(s, TRUE, h.rm2)
         IN  IF c.exc # "none" THEN c
             ELSE LET a == Attempt(c.st, h.with2)
                  IN  Res(a.st, c.trace \o a.trace, "none")
    ELSE Res(s, <<>>, "none")

RecreateHandler(s, recreate, h) ==
    IF ~recreate
    THEN LET c == _clean(s, TRUE, h.rm2)
         IN  IF c.exc # "none" THEN c
             ELSE LET a == Attempt(c.st, h.with2)
                  IN  Res(a.st, c.trace \o a.trace, a.exc)
    ELSE Res(s, <<>>, "none")

\* the try statement of setup (lines 187-199)
SetupTry(s, recreate, h) ==
    LET a == Attempt(s, h.with1)
        r == IF a.exc = "Recreate"
             THEN LET x == RecreateHandler(a.st, recreate, h)
                  IN  Res(x.st, a.trace \o x.trace, x.exc)
             ELSE IF a.exc = "none"
             THEN LET d == _done_with_setup(a.st, h.done)
                  IN  Res(d.st, a.trace \o d.trace, d.exc)
             ELSE a
    IN  Res(SetupFinally(r.st), r.trace, r.exc)

\* setup(recreate): the whole call. stage names where the call ended:
\* "noop" (line 182 false), "platform" (Skip), "clean" (line 186 raised),
\* "try" (the try statement was entered)
setup(s, recreate_arg, h) ==
    IF s.run.setup # FALSE THEN Staged(Res(s, <<>>, "none"), "noop")
    ELSE IF ~_platform_check(conf.platform, runs_on_platform)
         THEN Staged(Res(s, <<"_platform_check">>, "Skip"), "platform")
    ELSE LET recreate == recreate_arg \/ conf.recreate
             c == IF recreate THEN _clean(s, FALSE, h.rm1) ELSE Res(s, <<>>, "none")
         IN  IF c.exc # "none"
             THEN Staged(Res(c.st, <<"_platform_check">> \o c.trace, c.exc), "clean")
             ELSE LET t == SetupTry(c.st, recreate, h)
                  IN  Staged(Res(t.st, <<"_platform_check">> \o c.trace \o t.trace, t.exc),
                             "try")

\* teardown(): `how` is the way the hook _teardown exits
TeardownFinallyOnSuccess(s, how) ==
    IF how = "none" THEN [s EXCEPT !.run = [@ EXCEPT !.teardown = TRUE]] ELSE s

TeardownFinally(s, how) == [s EXCEPT !.run = [@ EXCEPT !.teardown = TRUE]]

teardown(s, how) ==
    IF ~s.run.teardown
    THEN Res(TeardownFinally(s, how), <<"_teardown">> \o Raise(how), how)
    ELSE Res(s, <<>>, "none")

(***************************************************************************)
(* PATH computation and the environment-variable resolver. A dict is a     *)
(* function on its keys; where the order of the keys decides the result    *)
(* (_make_path) it is the sequence of its keys in insertion order.         *)
(***************************************************************************)
\* os.pathsep (POSIX, as runs_on_platform is linux)
pathsep == ":"

PATH == <<"P", "A", "T", "H">>

\* s.split(sep): Python's str.split with a separator
RECURSIVE Split(_, _)
Split(s, sep) ==
    IF \A i \in 1..Len(s) : s[i] # sep THEN <<s>>
    ELSE LET i == CHOOSE k \in 1..Len(s) :
                      s[k] = sep /\ \A j \in 1..(k - 1) : s[j] # sep
         IN  <<SubSeq(s, 1, i - 1)>> \o Split(Rest(s, i + 1), sep)

\* sep.join(parts)
RECURSIVE Join(_, _)
Join(parts, sep) ==
    IF parts = <<>> THEN <<>>
    ELSE IF Len(parts) = 1 THEN parts[1]
    ELSE parts[1] \o <<sep>> \o Join(Tail(parts), sep)

\* the keys of a dict after dict.fromkeys(seq) / update(dict.fromkeys(seq)):
\* a key that is already there keeps its place
InsertKeysNoDedup(keys, seq) == keys \o seq

RECURSIVE InsertKeys(_, _)
InsertKeys(keys, seq) ==
    IF seq = <<>> THEN keys
    ELSE InsertKeys(IF Head(seq) \in Range(keys) THEN keys ELSE Append(keys, Head(seq)),
                    Tail(seq))

\* os.environ.get(name, default)
EnvironGet(environ, name, default) ==
    IF name \in DOMAIN environ THEN environ[name] ELSE default

\* _make_path: the owned directories (str(i) of a Path is the directory's
\* text), then the entries of the inherited PATH
_make_path(paths, environ) ==
    LET own    == InsertKeys(<<>>, paths)
        values == InsertKeys(own, Split(EnvironGet(environ, PATH, <<>>), pathsep))
    IN  Join(values, pathsep)

\* "*" in e
IsGlob(e) == "*" \in Range(e)

\* e.replace("*", ".*")
RECURSIVE Replace(_)
Replace(e) ==
    IF e = <<>> THEN <<>>
    ELSE (IF Head(e) = "*" THEN <<".", "*">> ELSE <<Head(e)>>) \o Replace(Tail(e))

\* d[k] = v for every item of o (dict.update)
Update(d, o) ==
    [k \in DOMAIN d \cup DOMAIN o |-> IF k \in DOMAIN o THEN o[k] ELSE d[k]]

\* lines 266-269: the literal names that are in the process environment
PassLiteral(pass, environ) ==
    [k \in { e \in pass : ~IsGlob(e) /\ e \in DOMAIN environ } |-> environ[k]]

\* lines 265, 270-273: every process variable whose name a glob matches
PassGlob(pass, environ) ==
    LET glob_pass_env == { Replace(e) : e \in { x \in pass : IsGlob(x) } }
    IN  [k \in { n \in DOMAIN environ : \E g \in glob_pass_env : ReMatch(g, n) }
            |-> environ[k]]

\* SetEnv.load(key): the value the override mapping produces for key
SetEnvLoad(overrides, key) == overrides[key]

\* lines 279-280: the overrides, written over whatever is there
ApplyOverridesSetdefault(result, overrides) ==
    [k \in DOMAIN result \cup DOMAIN overrides |->
        IF k \in DOMAIN result THEN result[k] ELSE SetEnvLoad(overrides, k)]

ApplyOverrides(result, overrides) ==
    Update(result, [k \in DOMAIN overrides |-> SetEnvLoad(overrides, k)])

\* _environment_variables, lines 263-281: the mapping a first read computes
ComputeEnvVars(pass, environ, overrides, paths) ==
    LET literal == PassLiteral(pass, environ)
        globbed == Update(literal, PassGlob(pass, environ))
        pathed  == Update(globbed, [k \in {PATH} |-> _make_path(paths, environ)])
    IN  ApplyOverrides(pathed, overrides)

\* the property _environment_variables: the memoized mapping, or a fresh one
_environment_variables(memo, pass, environ, overrides, paths) ==
    IF memo # <<>> THEN memo[1] ELSE ComputeEnvVars(pass, environ, overrides, paths)

\* a setter of _paths that computes the whole mapping anew
PathsSetterRecompute(memo, value, environ) ==
    IF memo # <<>>
    THEN <<ComputeEnvVars(pass_env, environ, set_env, value)>>
    ELSE memo

\* the setter of _paths, lines 287-294: the new value of _env_vars
PathsSetter(memo, value, environ) ==
    IF memo # <<>>
    THEN <<Update(memo[1], [k \in {PATH} |-> _make_path(value, environ)])>>
    ELSE memo

(***************************************************************************)
(* The lifecycle as a state machine                                        *)
(***************************************************************************)
HookExits == {"none", "Recreate", "Error"}
RmExits == {"none", "OSError"}
Hooks == [rm1 : RmExits, with1 : HookExits, rm2 : RmExits, with2 : HookExits,
          done : {"none", "Error"}]

\* no call yet; prev is the call before the last one: <<op, stage, exc>>
NoCall == [op |-> "none", arg |-> FALSE, trace |-> <<>>, exc |-> "none",
           stage |-> "none", prev |-> <<"none", "none", "none">>]

Called(op, arg, r, stage) ==
    [op |-> op, arg |-> arg, trace |-> r.trace, exc |-> r.exc, stage |-> stage,
     prev |-> <<last.op, last.stage, last.exc>>]

Commit(r) ==
    /\ run_state' = r.st.run
    /\ env_dir' = r.st.dir
    /\ env_tmp_dir' = r.st.tmp
    /\ cache' = r.st.cache

\* The state of a fresh ToxEnv (lines 53-62). The directories and the
\* fingerprint are what an earlier run left on disk; the fingerprint file
\* lives in env_dir, and so does the temporary directory by default.
InitLife ==
    /\ conf \in [platform : PlatformPatterns, recreate : BOOLEAN]
    /\ run_state = [setup |-> FALSE, clean |-> FALSE, teardown |-> FALSE]
    /\ env_dir \in BOOLEAN
    /\ env_tmp_dir \in (IF env_dir THEN {"absent", "empty", "nonempty"} ELSE {"absent"})
    /\ cache \in (IF env_dir THEN {{}, {Fingerprint}, {OldFingerprint}} ELSE {{}})
    /\ last = NoCall
    /\ teardowns = 0

Setup ==
    \E recreate \in BOOLEAN, h \in Hooks :
        LET r == setup(State, recreate, h)
        IN  /\ Commit(r)
            /\ last' = Called("setup", recreate, r, r.stage)
            /\ UNCHANGED <<conf, teardowns>>
            /\ UNCHANGED <<envVars, execVars>>

Clean ==
    \E force \in BOOLEAN, rm \in RmExits :
        LET r == _clean(State, force, rm)
        IN  /\ Commit(r)
            /\ last' = Called("clean", force, r, "none")
            /\ UNCHANGED <<conf, teardowns>>
            /\ UNCHANGED <<envVars, execVars>>

Teardown ==
    \E how \in {"none", "Error"} :
        LET r == teardown(State, how)
        IN  /\ Commit(r)
            /\ last' = Called("teardown", FALSE, r, "none")
            /\ teardowns' = IF "_teardown" \in Range(r.trace)
                             THEN Min(teardowns + 1, MaxTeardowns) ELSE teardowns
            /\ UNCHANGED conf
            /\ UNCHANGED <<envVars, execVars>>

\* nothing read or assigned yet; later "read" (of _environment_variables, which
\* returned the mapping now in _env_vars) or "set" (of _paths)
NoRead == "none"

\* the resolver's state of a fresh ToxEnv (lines 54-56) with nothing configured
NoEnv ==
    /\ pass_env = {}
    /\ set_env = <<>>
    /\ os_environ = <<>>
    /\ paths_private = <<>>
    /\ env_vars = <<>>
    /\ made_path = <<>>
    /\ env_last = NoRead
    /\ changes = 0

\* the bounds of the execution model: execute_async calls, sessions started
\* and interrupt() calls
MaxCalls == 3
MaxSessions == 2
MaxInterrupts == 2

NoStatus == [exit_code |-> FALSE, outcome |-> FALSE]
NotCalling == [kind |-> "none", exc |-> "none", result |-> "none"]

\* the registry and the interrupt flag of a fresh ToxEnv (lines 58-59), no
\* call running
NoExec ==
    /\ interrupted = FALSE
    /\ execute_statuses = {}
    /\ wpc = "idle"
    /\ wcall = NotCalling
    /\ calls = 0
    /\ session = 0
    /\ status = NoStatus
    /\ ipc = "idle"
    /\ snapshot = <<>>
    /\ icalls = 0
    /\ inflight = {}
    /\ got = [s \in 1..MaxSessions |-> 0]

Init == InitLife /\ NoEnv /\ NoExec

Next == Setup \/ Clean \/ Teardown

Spec == Init /\ [][Next]_vars

(***************************************************************************)
(* Properties of the lifecycle (checked under Spec)                        *)
(***************************************************************************)
\* the directories, the fingerprint cache and the three flags
lifeState == <<run_state, env_dir, env_tmp_dir, cache>>

\* a step that is a call of setup() / of teardown()
SetupStep == last' # last /\ last'.op = "setup"
TeardownStep == <<last, teardowns>>' # <<last, teardowns>> /\ last'.op = "teardown"

\* the call did nothing at all
NoOpCall == last'.trace = <<>> /\ last'.exc = "none" /\ UNCHANGED lifeState

\* C1 as claimed: after a setup() call that did not exit by Skip, the next
\* setup() call (with either value of recreate) invokes nothing and changes
\* nothing.
C1_AsClaimed ==
    [][(last.op = "setup" /\ last.exc # "Skip" /\ SetupStep) => NoOpCall]_vars

\* C1 amended: after a setup() call that entered the try statement of line 187
\* (it passed the platform check and its initial _clean, if any, returned), or
\* that was itself a no-op, the next setup() call (with either value of
\* recreate) invokes neither _clean nor a hook and changes no flag, directory
\* or fingerprint.
C1_SetupIdempotent ==
    [][(last.op = "setup" /\ last.stage \in {"try", "noop"} /\ SetupStep) => NoOpCall]_vars

\* a setup(recreate=True) that was ignored right after a setup() that raised
\* from its provisioning
C1_Witness ==
    /\ last.op = "setup" /\ last.arg = TRUE /\ last.stage = "noop"
    /\ last.prev[1] = "setup" /\ last.prev[2] = "try" /\ last.prev[3] = "Error"

\* C2 as claimed: in every setup() call whose first provisioning attempt
\* raised Recreate, a forced clean ran (and did reset the fingerprint cache)
\* and provisioning was attempted exactly once more.
C2_RecreateAlwaysRetried ==
    (last.op = "setup" /\ "raise Recreate" \in Range(last.trace)
        /\ last.exc \in {"none", "Recreate", "Error"})
    => /\ Count(last.trace, "_clean(force)") = 1
       /\ \E i, j \in 1..Len(last.trace) :
             i < j /\ last.trace[i] = "_clean(force)" /\ last.trace[j] = "cache.reset"
       /\ Count(last.trace, "_setup_env") = 2

\* C3 as claimed: Recreate on the first attempt and on the retry: setup()
\* exits with Recreate and setup_done is false.
C3_AsClaimed ==
    (last.op = "setup" /\ Count(last.trace, "raise Recreate") = 2)
    => last.exc = "Recreate" /\ run_state.setup = FALSE

\* C3 amended: Recreate on the first attempt and on the retry: setup() exits
\* with the second Recreate, and the finally clause has set setup_done to true
\* and cleaned to false.
C3_SecondRecreatePropagates ==
    (last.op = "setup" /\ Count(last.trace, "raise Recreate") = 2)
    => /\ last.exc = "Recreate"
       /\ Count(last.trace, "_setup_env") = 2
       /\ run_state.setup = TRUE /\ run_state.clean = FALSE

C3_Witness ==
    /\ last.op = "setup" /\ Count(last.trace, "raise Recreate") = 2
    /\ last.exc = "Recreate"

\* C4: when the platform pattern is not empty and does not match the whole
\* platform identifier, every setup() call (whatever its recreate argument and
\* the recreate option) raises Skip having done nothing but the check: no
\* flag, directory or fingerprint changes, no _clean, no cache access.
C4_SkipChangesNothing ==
    [][(SetupStep /\ conf.platform # <<>> /\ ~ReFull(conf.platform, runs_on_platform))
        => /\ last'.exc = "Skip"
           /\ last'.trace = <<"_platform_check">>
           /\ UNCHANGED lifeState]_vars

\* a Skip of setup(recreate=True) with the recreate option set, on an
\* environment that has a directory, a temporary directory with files and a
\* stale fingerprint
C4_Witness ==
    /\ last.op = "setup" /\ last.exc = "Skip" /\ last.arg = TRUE /\ conf.recreate
    /\ conf.platform = <<"l", "i", "n">>
    /\ env_dir /\ env_tmp_dir = "nonempty" /\ cache = {OldFingerprint}

\* C5: the hook _teardown runs at most once in the life of the environment:
\* a teardown() call with teardown_done false runs it once and leaves
\* teardown_done true however the hook exits (its failure reaches the caller),
\* a teardown() call with teardown_done true runs nothing and changes nothing,
\* and teardown_done never goes back to false.
C5_TeardownOnce ==
    /\ [](teardowns <= 1)
    /\ [][TeardownStep =>
            IF run_state.teardown
            THEN NoOpCall /\ UNCHANGED teardowns
            ELSE /\ Count(last'.trace, "_teardown") = 1
                 /\ run_state'.teardown
                 /\ last'.exc \in {"none", "Error"}
                 /\ (last'.exc = "Error") = ("raise Error" \in Range(last'.trace))]_vars
    /\ [][run_state.teardown => run_state'.teardown]_vars

\* a teardown() that did nothing, right after a teardown() whose hook failed
C5_Witness ==
    /\ last.op = "teardown" /\ last.trace = <<>> /\ run_state.teardown
    /\ last.prev[1] = "teardown" /\ last.prev[3] = "Error"
    /\ teardowns = 1

(***************************************************************************)
(* PATH computation on its own: every owned directory list and inherited   *)
(* PATH within the bounds, and one call of _make_path                      *)
(***************************************************************************)
\* the longest inherited PATH text and the longest owned directory list
MaxPathLen == 4
MaxOwned == 2

PathChars == {"a", "b", "c", pathsep}
Dirs == { <<"a">>, <<"b">>, <<"c">> }

\* all sequences over S of length at most n
SeqUpTo(S, n) == UNION { [1..k -> S] : k \in 0..n }

\* the lifecycle's state of a fresh ToxEnv with nothing configured
NoLife ==
    /\ conf = [platform |-> <<>>, recreate |-> FALSE]
    /\ run_state = [setup |-> FALSE, clean |-> FALSE, teardown |-> FALSE]
    /\ env_dir = FALSE
    /\ env_tmp_dir = "absent"
    /\ cache = {}
    /\ last = NoCall
    /\ teardowns = 0

InitPath ==
    /\ NoLife
    /\ NoExec
    /\ pass_env = {}
    /\ set_env = <<>>
    /\ env_vars = <<>>
    /\ made_path = <<>>
    /\ env_last = NoRead
    /\ changes = 0
    /\ paths_private \in SeqUpTo(Dirs, MaxOwned)
    /\ os_environ \in {<<>>} \cup { [k \in {PATH} |-> s] : s \in SeqUpTo(PathChars, MaxPathLen) }

MakePath ==
    /\ made_path' = <<_make_path(paths_private, os_environ)>>
    /\ UNCHANGED <<pass_env, set_env, os_environ, paths_private, env_vars,
                   env_last, changes>>
    /\ UNCHANGED <<lifeVars, execVars>>

NextPath == MakePath

SpecPath == InitPath /\ [][NextPath]_vars

\* the elements of seq, each at its first occurrence only, in the order of seq
KeepFirst(seq) ==
    LET idx == { i \in 1..Len(seq) : \A j \in 1..(i - 1) : seq[j] # seq[i] }
    IN  [r \in 1..Cardinality(idx) |->
            seq[CHOOSE i \in idx : Cardinality({ j \in idx : j <= i }) = r]]

\* the entries of the inherited PATH (one empty entry when PATH is unset)
Inherited == Split(EnvironGet(os_environ, PATH, <<>>), pathsep)

\* C10: the computed path is the owned directories followed by the entries of
\* the inherited PATH, each entry kept at its first occurrence only, joined
\* with the separator.
C10_PathFirstOccurrence ==
    made_path # <<>> =>
        LET want == KeepFirst(paths_private \o Inherited)
        IN /\ made_path[1] = Join(want, pathsep)
           /\ \A i, j \in 1..Len(want) : i # j => want[i] # want[j]
           /\ Range(want) = Range(paths_private) \cup Range(Inherited)
           /\ SubSeq(want, 1, Len(KeepFirst(paths_private))) = KeepFirst(paths_private)

\* owned [a, b] and inherited "b:c" give "a:b:c"
C10_Witness ==
    /\ paths_private = << <<"a">>, <<"b">> >>
    /\ os_environ = [k \in {PATH} |-> <<"b", ":", "c">>]
    /\ made_path = << <<"a", ":", "b", ":", "c">> >>

(***************************************************************************)
(* The resolver as a state machine: a configuration and a process          *)
(* environment within the bounds, reads of _environment_variables and      *)
(* assignments to _paths                                                   *)
(***************************************************************************)
\* the most entries of pass_env and the longest list assigned to _paths
MaxPass == 2
MaxAssigned == 1
MaxChanges == 1

FOO == <<"F", "O", "O">>
FOOBAR == <<"F", "O", "O", "B", "A", "R">>
XFOO == <<"X", "F", "O", "O">>
NEWVAR == <<"N", "E", "W">>

\* entries of pass_env: two literal names and the globs FOO*, *FOO and F*O
PassPatterns ==
    { FOOBAR, PATH, <<"F", "O", "O", "*">>, <<"*", "F", "O", "O">>, <<"F", "*", "O">> }

\* the process environment: any of these variables, set or not
ProcessEnv ==
    [k \in {FOO, FOOBAR, XFOO, PATH} |->
        IF k = PATH THEN <<"b", pathsep, "c">> ELSE <<"1">>]

\* the overrides: any of these keys, each set to "2"
OverrideKeys == {FOOBAR, PATH, NEWVAR}

Restrict(f, D) == [k \in D |-> f[k]]

InitEnv ==
    /\ NoLife
    /\ NoExec
    /\ pass_env \in { P \in SUBSET PassPatterns : Cardinality(P) <= MaxPass }
    /\ os_environ \in { Restrict(ProcessEnv, D) : D \in SUBSET DOMAIN ProcessEnv }
    /\ set_env \in { [k \in D |-> <<"2">>] : D \in SUBSET OverrideKeys }
    /\ paths_private = <<>>
    /\ env_vars = <<>>
    /\ made_path = <<>>
    /\ env_last = NoRead
    /\ changes = 0

\* a read of the property _environment_variables (lines 259-281): the mapping
\* it returns is the one _env_vars holds afterwards
ReadEnvVars ==
    /\ env_vars' = <<_environment_variables(env_vars, pass_env, os_environ, set_env,
                                             paths_private)>>
    /\ env_last' = "read"
    /\ UNCHANGED <<pass_env, set_env, os_environ, paths_private, made_path, changes>>
    /\ UNCHANGED <<lifeVars, execVars>>

\* self._paths = value (lines 287-294)
SetPaths ==
    \E value \in SeqUpTo({ <<"a">>, <<"b">> }, MaxAssigned) :
        /\ paths_private' = value
        /\ env_vars' = PathsSetter(env_vars, value, os_environ)
        /\ env_last' = "set"
        /\ UNCHANGED <<pass_env, set_env, os_environ, made_path, changes>>
        /\ UNCHANGED <<lifeVars, execVars>>

NextEnv == ReadEnvVars \/ SetPaths

SpecEnv == InitEnv /\ [][NextEnv]_vars

\* C9: in the mapping the first computation returns, every override key maps
\* to the value the override mapping produced for it, whatever the literal or
\* glob pass-through or the computed path put under that key.
C9_OverrideWins ==
    [][(env_vars = <<>> /\ env_vars' # <<>>) =>
        \A k \in DOMAIN set_env :
            k \in DOMAIN env_vars'[1] /\ env_vars'[1][k] = set_env[k]]_vars

\* pass-through FOO*, FOOBAR=1 in the process environment, overrides FOOBAR=2
\* and PATH=2, after the first computation and before any assignment to _paths
C9_Witness ==
    /\ env_vars # <<>> /\ paths_private = <<>>
    /\ pass_env = { <<"F", "O", "O", "*">>, PATH }
    /\ FOOBAR \in DOMAIN os_environ /\ os_environ[FOOBAR] = <<"1">>
    /\ PATH \in DOMAIN os_environ
    /\ DOMAIN set_env = {FOOBAR, PATH}
    /\ env_vars[1][FOOBAR] = <<"2">>
    /\ env_vars[1][PATH] = <<"2">>

(***************************************************************************)
(* Execution sessions and interrupt(): one thread calls execute() and      *)
(* execute_async() one after the other, another thread calls interrupt().  *)
(* A thread switch can fall between any two statements, so each action is  *)
(* one step of one thread.                                                 *)
(***************************************************************************)
\* lines 335-336: how execute_async starts, given self._interrupted
ExecuteAsyncEntryUnfenced(flag) == "none"

ExecuteAsyncEntry(flag) == IF flag THEN "SystemExit" ELSE "none"

\* line 356: self._execute_statuses[execute_id] = execute_status
Register(registry, id) == registry \cup {id}

\* lines 358-359: the finally clause around the yield; exc is how the
\* caller's with-block ended
DeregisterOnSuccess(registry, id, exc) ==
    IF exc = "none" THEN registry \ {id} ELSE registry

Deregister(registry, id, exc) == registry \ {id}

\* executor.call has been entered and the caller's with-block is not over
InFlight == wpc \in {"register", "body"}

\* the environment of the execution model: FOO* passed through, FOOBAR
\* overridden
InitExec ==
    /\ NoLife
    /\ NoExec
    /\ pass_env = { <<"F", "O", "O", "*">> }
    /\ os_environ = ProcessEnv
    /\ set_env = [k \in {FOOBAR} |-> <<"2">>]
    /\ paths_private = <<>>
    /\ env_vars = <<>>
    /\ made_path = <<>>
    /\ env_last = NoRead
    /\ changes = 0

\* execute() or execute_async() is called: lines 311 and 335-336
Begin ==
    \E kind \in {"execute", "execute_async"} :
        /\ wpc = "idle" /\ calls < MaxCalls
        /\ calls' = calls + 1
        /\ IF ExecuteAsyncEntry(interrupted) = "SystemExit"
           THEN /\ wpc' = "idle"
                /\ wcall' = [kind |-> kind, exc |-> "none", result |-> "SystemExit"]
           ELSE /\ wpc' = "request"
                /\ wcall' = [kind |-> kind, exc |-> "none", result |-> "none"]
        /\ UNCHANGED <<interrupted, execute_statuses, session, status,
                       ipc, snapshot, icalls, inflight, got>>
        /\ UNCHANGED <<lifeVars, envVars>>

\* lines 337-352: the request, which reads _environment_variables
BuildRequest ==
    /\ wpc = "request"
    /\ env_vars' = <<_environment_variables(env_vars, pass_env, os_environ, set_env,
                                             paths_private)>>
    /\ wpc' = "call"
    /\ UNCHANGED <<interrupted, execute_statuses, wcall, calls, session, status,
                   ipc, snapshot, icalls, inflight, got>>
    /\ UNCHANGED <<pass_env, set_env, os_environ, paths_private, made_path,
                   env_last, changes>>
    /\ UNCHANGED lifeVars

\* line 353: executor.call is entered and yields a new status, or fails
ExecutorCall ==
    /\ wpc = "call"
    /\ \/ /\ session < MaxSessions
          /\ session' = session + 1
          /\ status' = NoStatus
          /\ wpc' = "register"
          /\ UNCHANGED wcall
       \/ /\ wpc' = "idle"
          /\ wcall' = [wcall EXCEPT !.result = "Error"]
          /\ UNCHANGED <<session, status>>
    /\ UNCHANGED <<interrupted, execute_statuses, calls, ipc, snapshot, icalls,
                   inflight, got>>
    /\ UNCHANGED <<lifeVars, envVars>>

\* lines 354-357: the status is registered and handed to the caller
RegisterStatus ==
    /\ wpc = "register"
    /\ execute_statuses' = Register(execute_statuses, session)
    /\ wpc' = "body"
    /\ UNCHANGED <<interrupted, wcall, calls, session, status, ipc, snapshot, icalls,
                   inflight, got>>
    /\ UNCHANGED <<lifeVars, envVars>>

\* the subprocess ends: the status reports an exit code, and an outcome
\* unless the run was cancelled before it started
ProcessExit ==
    \E outcome \in BOOLEAN :
        /\ InFlight /\ ~status.exit_code
        /\ status' = [exit_code |-> TRUE, outcome |-> outcome]
        /\ UNCHANGED <<interrupted, execute_statuses, wpc, wcall, calls, session,
                       ipc, snapshot, icalls, inflight, got>>
        /\ UNCHANGED <<lifeVars, envVars>>

\* a with-block of execute() that does not wait for the exit code
BodyExitNoWait ==
    \E exc \in {"none", "Error"} :
        /\ wpc = "body"
        /\ wcall' = [wcall EXCEPT !.exc = exc]
        /\ wpc' = "finally"
        /\ UNCHANGED <<interrupted, execute_statuses, calls, session, status,
                       ipc, snapshot, icalls, inflight, got>>
        /\ UNCHANGED <<lifeVars, envVars>>

\* the caller's with-block ends. In execute() it is the loop of lines
\* 312-313, which ends when the exit code is there; any with-block can end
\* by an exception.
BodyExit ==
    \E exc \in {"none", "Error"} :
        /\ wpc = "body"
        /\ (wcall.kind = "execute" /\ exc = "none") => status.exit_code
        /\ wcall' = [wcall EXCEPT !.exc = exc]
        /\ wpc' = "finally"
        /\ UNCHANGED <<interrupted, execute_statuses, calls, session, status,
                       ipc, snapshot, icalls, inflight, got>>
        /\ UNCHANGED <<lifeVars, envVars>>

\* lines 358-359: the finally clause
Finally ==
    /\ wpc = "finally"
    /\ execute_statuses' = Deregister(execute_statuses, session, wcall.exc)
    /\ wpc' = "exit"
    /\ UNCHANGED <<interrupted, wcall, calls, session, status, ipc, snapshot, icalls,
                   inflight, got>>
    /\ UNCHANGED <<lifeVars, envVars>>

\* executor.call is left and the call ends: lines 360-364, and in execute()
\* lines 314-316
Leave ==
    /\ wpc = "exit"
    /\ wpc' = "idle"
    /\ wcall' = [wcall EXCEPT !.result =
                    IF wcall.exc # "none" THEN wcall.exc
                    ELSE IF wcall.kind = "execute" /\ ~status.outcome THEN "RuntimeError"
                    ELSE "returned"]
    /\ UNCHANGED <<interrupted, execute_statuses, calls, session, status,
                   ipc, snapshot, icalls, inflight, got>>
    /\ UNCHANGED <<lifeVars, envVars>>

\* interrupt() is called: lines 320-321
Interrupt ==
    /\ ipc = "idle" /\ icalls < MaxInterrupts
    /\ icalls' = icalls + 1
    /\ interrupted' = TRUE
    /\ ipc' = "snapshot"
    /\ inflight' = IF InFlight THEN {session} ELSE {}
    /\ got' = [s \in 1..MaxSessions |-> 0]
    /\ UNCHANGED <<execute_statuses, wpc, wcall, calls, session, status, snapshot>>
    /\ UNCHANGED <<lifeVars, envVars>>

\* line 322: list(self._execute_statuses.values())
TakeSnapshot ==
    /\ ipc = "snapshot"
    /\ snapshot' \in { q \in SeqUpTo(execute_statuses, Cardinality(execute_statuses)) :
                          Len(q) = Cardinality(execute_statuses)
                          /\ Range(q) = execute_statuses }
    /\ ipc' = "deliver"
    /\ UNCHANGED <<interrupted, execute_statuses, wpc, wcall, calls, session, status,
                   icalls, inflight, got>>
    /\ UNCHANGED <<lifeVars, envVars>>

\* line 323: status.interrupt() for the next status of the list, or the
\* end of the loop
Deliver ==
    /\ ipc = "deliver"
    /\ IF snapshot = <<>>
       THEN ipc' = "idle" /\ UNCHANGED <<snapshot, got>>
       ELSE /\ got' = [got EXCEPT ![Head(snapshot)] = @ + 1]
            /\ snapshot' = Tail(snapshot)
            /\ UNCHANGED ipc
    /\ UNCHANGED <<interrupted, execute_statuses, wpc, wcall, calls, session, status,
                   icalls, inflight>>
    /\ UNCHANGED <<lifeVars, envVars>>

NextExec ==
    \/ Begin \/ BuildRequest \/ ExecutorCall \/ RegisterStatus
    \/ ProcessExit \/ BodyExit \/ Finally \/ Leave
    \/ Interrupt \/ TakeSnapshot \/ Deliver

SpecExec == InitExec /\ [][NextExec]_vars

\* C6: once interrupt() has been called, a call of execute_async (or of
\* execute) that begins fails at once with SystemExit: no request is built
\* (the variable mapping is not read), no session is started, the registry is
\* not touched; and the interrupted flag, once set, stays set.
C6_InterruptFence ==
    /\ [][(icalls > 0 /\ calls' # calls) =>
            /\ wpc' = "idle" /\ wcall'.result = "SystemExit"
            /\ UNCHANGED <<execute_statuses, env_vars, session, status>>]_vars
    /\ [][interrupted => interrupted']_vars
    /\ [](icalls > 0 => interrupted)

\* a call refused after an interrupt, with no session ever started
C6_Witness ==
    /\ interrupted /\ wpc = "idle" /\ wcall.result = "SystemExit"
    /\ session = 0 /\ env_vars = <<>> /\ execute_statuses = {}

\* C7 as claimed: when an interrupt() call is over, every session that was in
\* flight when it began has had exactly one interrupt() on its status from it.
C7_InFlightInterruptedOnce ==
    (icalls > 0 /\ ipc = "idle") => \A s \in inflight : got[s] = 1

\* C8: the registry holds the session exactly while the caller's with-block
\* is open (from the registration that precedes the yield to the finally
\* clause that follows it), and is empty whenever no with-block is open,
\* however the block ended.
C8_ScopedRelease ==
    /\ wpc \in {"body", "finally"} => execute_statuses = {session}
    /\ wpc \notin {"body", "finally"} => execute_statuses = {}

\* a session released after its with-block ended by an exception, and one
\* released after an interrupt reached its status
C8_Witness ==
    /\ wpc = "exit" /\ wcall.exc = "Error" /\ execute_statuses = {}
    /\ session > 0 /\ got[session] = 1

(***************************************************************************)
(* More properties of the lifecycle (under Spec)                           *)
(***************************************************************************)
\* the fingerprints stored when event i of trace t of a call begins, c0 being
\* what was stored when the call began
StoredBefore(t, i, c0) ==
    LET js == { j \in 1..(i - 1) : t[j] \in {"cache.reset", "cache.write"} }
    IN  IF js = {} THEN c0
        ELSE LET m == CHOOSE j \in js : \A k \in js : k <= j
             IN  IF t[m] = "cache.reset" THEN {} ELSE {Fingerprint}

\* the provisioning attempt that starts at event i of t was ended by the
\* fingerprint check raising Recreate
FingerprintRaise(t, i) ==
    Len(t) >= i + 2 /\ t[i + 1] = "cache.compare" /\ t[i + 2] = "raise Recreate"

\* C11: in every provisioning attempt of a setup() call, the fingerprint check
\* raises Recreate exactly when a fingerprint was stored and differs from the
\* computed one (so never with nothing stored: on a first run or right after
\* a reset), and it raises right after the comparison, before the temporary
\* directory is looked at.
C11_FingerprintRecreate ==
    [][SetupStep =>
        \A i \in 1..Len(last'.trace) :
            last'.trace[i] = "_setup_env" =>
                LET stored == StoredBefore(last'.trace, i, cache)
                IN  /\ Len(last'.trace) > i /\ last'.trace[i + 1] = "cache.compare"
                    /\ FingerprintRaise(last'.trace, i)
                           = (stored # {} /\ stored # {Fingerprint})]_vars

\* a setup() whose first attempt met the fingerprint of another environment
\* type: Recreate right after the comparison, then the forced clean and a
\* retry that stores the fingerprint
C11_Witness ==
    /\ last.op = "setup" /\ Len(last.trace) >= 5
    /\ SubSeq(last.trace, 2, 5) = <<"_setup_env", "cache.compare", "raise Recreate",
                                    "_clean(force)">>
    /\ "cache.write" \in Range(last.trace)
    /\ "rmtree(env_tmp_dir)" \notin Range(last.trace)

\* a step that is a call of Clean
CleanStep == last' # last /\ last'.op = "clean"

\* the two flags are never both set
FlagsExclusive == ~(run_state.setup /\ run_state.clean)

\* C12 as claimed: the flags are never both set, every Clean (one that raises
\* included) leaves setup_done false and cleaned true, and every setup() that
\* got past the platform check leaves cleaned false.
C12_AsClaimed ==
    [][/\ FlagsExclusive'
       /\ CleanStep => (~run_state'.setup /\ run_state'.clean)
       /\ (SetupStep /\ last'.stage \in {"clean", "try"}) => ~run_state'.clean]_vars

\* C12 amended: the flags are never both set; a Clean that returns leaves
\* setup_done false and cleaned true, a Clean that raises (the recursive
\* delete failed) leaves both flags as they were, with cleaned false; and a
\* setup() that got past the platform check leaves cleaned false.
C12_FlagInvariant ==
    [][/\ FlagsExclusive /\ FlagsExclusive'
       /\ (CleanStep /\ last'.exc = "none") => (~run_state'.setup /\ run_state'.clean)
       /\ (CleanStep /\ last'.exc # "none") => (run_state' = run_state /\ ~run_state'.clean)
       /\ (SetupStep /\ last'.stage \in {"clean", "try"}) => ~run_state'.clean]_vars

\* a Clean that deleted the directory of an environment that was set up, and
\* so took setup_done back to false
C12_Witness ==
    /\ last.op = "clean" /\ last.exc = "none" /\ last.prev[1] = "setup"
    /\ "rmtree(env_dir)" \in Range(last.trace)
    /\ ~run_state.setup /\ run_state.clean

\* C13: a Clean with force=true is never stopped by the already-cleaned guard:
\* wherever it is called (by itself or from the Recreate handler of setup())
\* it goes on to the recursive delete when the directory exists, or else to
\* the reset of the fingerprint cache.
C13_ForceBypassesGuard ==
    [][last' # last =>
        \A i \in 1..Len(last'.trace) :
            last'.trace[i] = "_clean(force)" =>
                /\ Len(last'.trace) > i
                /\ last'.trace[i + 1] \in {"rmtree(env_dir)", "cache.reset"}]_vars

\* the provisioning of the call with trace t ended successfully: its last
\* attempt came back from _setup_with_env without raising
ProvisioningSucceeded(t) ==
    \E i \in 1..Len(t) :
        /\ t[i] = "_setup_with_env"
        /\ (i = Len(t) \/ t[i + 1] = "_done_with_setup")

\* C14: every setup() call whose provisioning ends successfully (at the first
\* attempt, or at the retry after a Recreate) invokes _done_with_setup exactly
\* once, and a setup() call that exits by raising never invokes it.
C14_CompletionHookOnce ==
    [][SetupStep =>
        /\ ProvisioningSucceeded(last'.trace)
               => Count(last'.trace, "_done_with_setup") = 1
        /\ last'.exc # "none"
               => Count(last'.trace, "_done_with_setup") = 0]_vars

C18_TornDownTerminal ==
    [][run_state.teardown =>
        /\ run_state'.teardown
        /\ (SetupStep \/ CleanStep) =>
               /\ run_state'.setup = run_state.setup
               /\ run_state'.clean = run_state.clean
               /\ "_setup_env" \notin Range(last'.trace)]_vars

\* the glob p matches the whole of name n, "*" standing for any sequence of
\* characters
RECURSIVE GlobMatch(_, _)
GlobMatch(p, n) ==
    IF p = <<>> THEN n = <<>>
    ELSE IF Head(p) = "*"
         THEN \E i \in 0..Len(n) : GlobMatch(Tail(p), SubSeq(n, i + 1, Len(n)))
    ELSE n # <<>> /\ Head(n) = Head(p) /\ GlobMatch(Tail(p), Tail(n))

\* C20: the keys of the mapping the first computation returns are exactly the
\* literal pass_env names that are in the process environment, the process
\* variables whose whole name a glob of pass_env matches, PATH and the
\* override keys; and a key that is neither PATH nor overridden has the value
\* of the process environment.
C20_PassthroughIsolation ==
    [][(env_vars = <<>> /\ env_vars' # <<>>) =>
        LET literal == { e \in pass_env : ~IsGlob(e) /\ e \in DOMAIN os_environ }
            globbed == { n \in DOMAIN os_environ :
                            \E e \in pass_env : IsGlob(e) /\ GlobMatch(e, n) }
        IN  /\ DOMAIN env_vars'[1] = literal \cup globbed \cup {PATH} \cup DOMAIN set_env
            /\ \A k \in DOMAIN env_vars'[1] \ ({PATH} \cup DOMAIN set_env) :
                   env_vars'[1][k] = os_environ[k]]_vars

\* C21: as long as _env_vars holds a mapping, whatever was assigned to _paths
\* since it was computed, every override key (PATH included) maps to the
\* value the override mapping produces for it.
C21_OverrideKeepsWinning ==
    env_vars # <<>> =>
        \A k \in DOMAIN set_env :
            k \in DOMAIN env_vars[1] /\ env_vars[1][k] = SetEnvLoad(set_env, k)

(***************************************************************************)
(* The resolver in a process environment and under overrides that change   *)
(***************************************************************************)
\* a fresh ToxEnv with some pass_env, in the whole of ProcessEnv, with no
\* override or with one
InitMemo ==
    /\ NoLife
    /\ NoExec
    /\ pass_env \in { Q \in SUBSET PassPatterns : Cardinality(Q) <= MaxPass }
    /\ os_environ = ProcessEnv
    /\ set_env \in {<<>>} \cup { [k \in {n} |-> <<"2">>] : n \in {FOOBAR, PATH} }
    /\ paths_private = <<>>
    /\ env_vars = <<>>
    /\ made_path = <<>>
    /\ env_last = NoRead
    /\ changes = 0

\* os.environ is the live environment of the tox process (lines 267, 271 and
\* 298 read it anew): a variable is set, changed or removed
Putenv ==
    /\ changes < MaxChanges
    /\ \E k \in DOMAIN ProcessEnv, v \in {<<>>, <<"3">>} :
          os_environ' = IF v = <<>>
                        THEN Restrict(os_environ, DOMAIN os_environ \ {k})
                        ELSE Update(os_environ, [n \in {k} |-> v])
    /\ os_environ' # os_environ
    /\ changes' = changes + 1
    /\ UNCHANGED <<pass_env, set_env, paths_private, env_vars, made_path, env_last>>
    /\ UNCHANGED <<lifeVars, execVars>>

\* conf["set_env"] (line 275) is a mutable object: an override is added or
\* changed
SetEnvUpdate ==
    /\ changes < MaxChanges
    /\ \E k \in OverrideKeys : set_env' = Update(set_env, [n \in {k} |-> <<"4">>])
    /\ changes' = changes + 1
    /\ UNCHANGED <<pass_env, os_environ, paths_private, env_vars, made_path, env_last>>
    /\ UNCHANGED <<lifeVars, execVars>>

NextMemo == ReadEnvVars \/ SetPaths \/ Putenv \/ SetEnvUpdate

SpecMemo == InitMemo /\ [][NextMemo]_vars

(***************************************************************************)
(* Properties of the memoized mapping (under SpecMemo)                     *)
(***************************************************************************)
\* a step that is an assignment to _paths
SetPathsStep == env_last' = "set" /\ changes' = changes

\* C16: once _env_vars holds a mapping, a read returns that mapping as it is,
\* whatever the process environment and the overrides have become; an
\* assignment to _paths then changes the entry PATH alone, to the path computed
\* from the new list and the process environment of that moment; and an
\* assignment made while _env_vars is still None leaves it None.
C16_MemoizedPathRefresh ==
    [][/\ (env_last' = "read" /\ env_vars # <<>>) => env_vars' = env_vars
       /\ (SetPathsStep /\ env_vars # <<>>) =>
              /\ env_vars' # <<>>
              /\ DOMAIN env_vars'[1] = DOMAIN env_vars[1]
              /\ \A k \in DOMAIN env_vars[1] \ {PATH} : env_vars'[1][k] = env_vars[1][k]
              /\ env_vars'[1][PATH] = _make_path(paths_private', os_environ)
       /\ (SetPathsStep /\ env_vars = <<>>) => env_vars' = <<>>]_vars

\* FOO=1 was passed through, then FOO became 3 in the process environment,
\* then _paths was assigned [a]: the mapping still has FOO=1 and its PATH is
\* a:b:c
C16_Witness ==
    /\ env_vars # <<>> /\ env_last = "set" /\ changes = 1
    /\ paths_private = << <<"a">> >>
    /\ FOO \in DOMAIN os_environ /\ os_environ[FOO] = <<"3">>
    /\ FOO \in DOMAIN env_vars[1] /\ env_vars[1][FOO] = <<"1">>
    /\ env_vars[1][PATH] = <<"a", pathsep, "b", pathsep, "c">>

(***************************************************************************)
(* More properties of execution and interruption (under SpecExec)          *)
(***************************************************************************)
\* a step of the loop of line 323 that calls interrupt() on a status
DeliverStep == ipc = "deliver" /\ snapshot # <<>> /\ snapshot' = Tail(snapshot)

\* C17: whenever interrupt() calls status.interrupt(), that status is in the
\* registry at that moment.
C17_NoStaleDelivery ==
    [][DeliverStep => Head(snapshot) \in execute_statuses]_vars

\* the thread that runs execute() keeps running: the loop of lines 312-313
\* ends once the exit code is there, and the finally clause and the rest of
\* the call follow
SpecExecFair ==
    SpecExec /\ WF_vars(BodyExit) /\ WF_vars(Finally) /\ WF_vars(Leave)

\* the call of execute() is over
ExecuteOver == wpc = "idle" /\ wcall.kind = "execute"

\* C19: execute() leaves its waiting loop normally only when the status has an
\* exit code; when it has returned or failed with RuntimeError the exit code is
\* there, it returned exactly when there is an outcome, and the registry no
\* longer holds the session; and an execute() that is waiting returns or fails
\* once the status has an exit code.
C19_ExecuteWaits ==
    /\ [][(wcall.kind = "execute" /\ wpc = "body" /\ wpc' # "body"
             /\ wcall'.exc = "none") => status.exit_code]_vars
    /\ []((ExecuteOver /\ wcall.result \in {"returned", "RuntimeError"}) =>
             /\ status.exit_code
             /\ (wcall.result = "returned") = status.outcome)
    /\ [](ExecuteOver => execute_statuses = {})
    /\ ((wcall.kind = "execute" /\ wpc = "body" /\ status.exit_code) ~> ExecuteOver)

\* an execute() that failed with RuntimeError: an exit code and no outcome,
\* the registry empty again
C19_Witness ==
    /\ ExecuteOver /\ wcall.result = "RuntimeError"
    /\ status.exit_code /\ ~status.outcome
    /\ session > 0 /\ execute_statuses = {}

====
